---------------------------- MODULE Spec2Model ----------------------------
(***************************************************************************)
(* A model of twisted/python/log.py: the legacy logging facade.            *)
(*                                                                         *)
(* Events are Python dicts, modelled as functions from key names to        *)
(* values (a key is present iff it is in the DOMAIN).  Texts are strings,  *)
(* built with \o the way the code builds them with %, + and join.          *)
(*                                                                         *)
(* The module holds these state machines over one set of variables:        *)
(*   SpecFormat   _safeFormat applied to drawn (fmtString, fmtDict)        *)
(*   SpecText     textFromEventDict applied to a drawn event               *)
(*   SpecNorm     publishToNewObserver applied once and twice to an event  *)
(*   Spec         the publisher: addObserver, removeObserver and msg, in   *)
(*                one thread of control                                    *)
(*   SpecContext  msg inside nested callWithContext calls                  *)
(*   SpecThreads  the publisher's operations interleaved by threads        *)
(*   SpecReport   err and callWithLogger with observers registered         *)
(*   SpecStdio    StdioOnnaStick.write with observers registered           *)
(***************************************************************************)
EXTENDS Integers, Sequences, FiniteSets, TLC

VARIABLES
    sfPc, sfIn, sfOut,          \* _safeFormat: position, arguments, result
    tPc, tIn, tOut,             \* textFromEventDict: position, argument, result
    nPc, nIn, nOnce, nTwice,    \* publishToNewObserver: position, input, results
    registry,                   \* NewLogger.publisher.filteredPublisher.observers
    owned,                      \* history: the (owner, observer) pairs registered
    ctxStack,                   \* the ILogContext mappings of the context tracker
    saved,                      \* history: per active callWithContext, its entry state
    exc,                        \* the exception propagating in the thread, if any
    last,                       \* history: the last call made and what it did
    aborted,                    \* history: an observer has raised in a dispatch
    stdio,                      \* a StdioOnnaStick: its isError and buf
    written,                    \* history: all the data written to stdio
    emitted,                    \* history: the msg calls made by stdio's write
    thPc, thArg, thIdx, thLock  \* threads: position, argument, loop index, lock owner

fmtVars == <<sfPc, sfIn, sfOut>>
textVars == <<tPc, tIn, tOut>>
stdioVars == <<stdio, written, emitted>>
normVars == <<nPc, nIn, nOnce, nTwice>>
pubVars == <<registry, owned, ctxStack, saved, exc, last, aborted>>
thVars == <<thPc, thArg, thIdx, thLock>>
funVars == <<fmtVars, normVars, textVars>>
vars == <<sfPc, sfIn, sfOut, tPc, tIn, tOut, nPc, nIn, nOnce, nTwice, registry,
          owned, ctxStack, saved, exc, last, aborted, stdio, written, emitted,
          thPc, thArg, thIdx, thLock>>

---------------------------------------------------------------------------
(* Python values                                                           *)

\* The empty dict.
EmptyDict == [k \in {} |-> 0]

\* d[k] = v on a copy of d.
Put(d, k, v) == (k :> v) @@ d

\* base.copy() followed by .update(over): over wins on a key collision.
Update(base, over) == over @@ base

\* None, where it is the value of a string-valued key.
NoneValue == "<None>"

\* An object whose __str__ raises and whose __repr__ works.
BadStr == "<object whose __str__ raises>"

\* An object whose __repr__ raises; str() of it falls back on __repr__.
BadRepr == "<object whose __repr__ raises>"

\* The keys whose values the model holds as strings (or the objects above).
StringKeys == {"system", "obj", "format", "why", "failure", "log_text",
               "log_format", "log_level", "log_namespace", "log_system"}

StrRaises(v) == v \in {BadStr, BadRepr}

ReprRaises(v) == v = BadRepr

\* str(v) of a value that stringifies.
Str(v) == IF v = NoneValue THEN "None" ELSE v

\* repr(v) of a value that has a repr: a str is quoted.
Repr(v) == IF v = NoneValue THEN "None"
           ELSE IF v = BadStr THEN "<object>"
           ELSE "'" \o v \o "'"

\* repr of a dict calls repr on every value.
DictReprRaises(d) ==
    \/ \E k \in DOMAIN d \cap StringKeys : ReprRaises(d[k])
    \/ /\ "message" \in DOMAIN d
       /\ \E i \in 1..Len(d["message"]) : ReprRaises(d["message"][i])

\* str(d) of a dict: a text that shows every key and every value.
DictStr(d) == ToString(d)

\* Python truthiness of a number.
Truthy(v) == v # 0

\* Python falsiness of a string-or-None value.
Falsy(v) == v \in {NoneValue, ""}

---------------------------------------------------------------------------
(* %-templates.  A template is a str; what % does with it is given by its  *)
(* conversions.  Each entry: the literal before the conversion and the key *)
(* the conversion names ("" for none).                                     *)

MalformedTemplate == "%(obj"

Templates == {"plain text", "%(system)s", "obj=%(obj)s", "%(obj)s in %(system)s",
              MalformedTemplate}

\* A format that is not a str: % on it is a TypeError.
IsTemplate(f) == f \in Templates

TemplateParts(f) ==
    CASE f = "plain text" -> <<[lit |-> "plain text", key |-> ""]>>
      [] f = "%(system)s" -> <<[lit |-> "", key |-> "system"]>>
      [] f = "obj=%(obj)s" -> <<[lit |-> "obj=", key |-> "obj"]>>
      [] f = "%(obj)s in %(system)s" ->
            <<[lit |-> "", key |-> "obj"], [lit |-> " in ", key |-> "system"]>>
      [] OTHER -> <<>>

\* Whether fmtString % fmtDict raises: a format that is no str, a malformed
\* template, a conversion naming a missing key, a value whose str() raises.
ModRaises(f, d) ==
    \/ ~IsTemplate(f)
    \/ f = MalformedTemplate
    \/ \E i \in 1..Len(TemplateParts(f)) :
          LET key == TemplateParts(f)[i].key
          IN  /\ key # ""
              /\ \/ key \notin DOMAIN d
                 \/ StrRaises(d[key])

RECURSIVE ModParts(_, _)
ModParts(parts, d) ==
    IF parts = <<>> THEN ""
    ELSE LET p == Head(parts)
         IN  p.lit \o (IF p.key = "" THEN "" ELSE Str(d[p.key]))
                   \o ModParts(Tail(parts), d)

\* fmtString % fmtDict, where it does not raise.
Mod(f, d) == ModParts(TemplateParts(f), d)

---------------------------------------------------------------------------
(* _safeFormat.  sig names the tier during whose evaluation a              *)
(* KeyboardInterrupt is raised ("none": no interrupt).                     *)

Signals == {"none", "tier0", "tier1", "tier2"}

PathologicalText ==
    "PATHOLOGICAL ERROR IN BOTH FORMAT STRING AND MESSAGE DETAILS, MESSAGE LOST"

\* What evaluating text = fmtString % fmtDict raises.
Tier0Raises(f, d, sig) ==
    IF sig = "tier0" THEN "KeyboardInterrupt"
    ELSE IF ModRaises(f, d) THEN "Exception" ELSE "none"

Tier0Text(f, d) == Mod(f, d)

\* What evaluating 'Invalid format string ...: %r, %s' % (fmtString, fmtDict)
\* raises.
Tier1Raises(f, d, sig) ==
    IF sig = "tier1" THEN "KeyboardInterrupt"
    ELSE IF ReprRaises(f) \/ DictReprRaises(d) THEN "Exception" ELSE "none"

Tier1Text(f, d) ==
    "Invalid format string or unformattable object in log message: "
        \o Repr(f) \o ", " \o DictStr(d)

\* What evaluating 'UNFORMATTABLE OBJECT ... %r, MESSAGE LOST' % (fmtString,)
\* raises.
Tier2Raises(f, sig) ==
    IF sig = "tier2" THEN "KeyboardInterrupt"
    ELSE IF ReprRaises(f) THEN "Exception" ELSE "none"

Tier2Text(f) ==
    "UNFORMATTABLE OBJECT WRITTEN TO LOG with fmt " \o Repr(f) \o ", MESSAGE LOST"

Returned(text) == [raised |-> "none", text |-> text]

Raised(e) == [raised |-> e, text |-> ""]

\* _safeFormat with a bare except: at tier 0 as well.
_safeFormat_BareExcept(fmtString, fmtDict, sig) ==
    LET e0 == Tier0Raises(fmtString, fmtDict, sig)
        e1 == Tier1Raises(fmtString, fmtDict, sig)
        e2 == Tier2Raises(fmtString, sig)
    IN  IF e0 = "none" THEN Returned(Tier0Text(fmtString, fmtDict))
        ELSE IF e1 = "none" THEN Returned(Tier1Text(fmtString, fmtDict))
        ELSE IF e2 = "none" THEN Returned(Tier2Text(fmtString))
        ELSE Returned(PathologicalText)

_safeFormat(fmtString, fmtDict, sig) ==
    LET e0 == Tier0Raises(fmtString, fmtDict, sig)
        e1 == Tier1Raises(fmtString, fmtDict, sig)
        e2 == Tier2Raises(fmtString, sig)
    IN  IF e0 = "none" THEN Returned(Tier0Text(fmtString, fmtDict))
        ELSE IF e0 = "KeyboardInterrupt" THEN Raised("KeyboardInterrupt")
        ELSE IF e1 = "none" THEN Returned(Tier1Text(fmtString, fmtDict))
        ELSE IF e2 = "none" THEN Returned(Tier2Text(fmtString))
        ELSE Returned(PathologicalText)

---------------------------------------------------------------------------
(* textFromEventDict                                                       *)

\* reflect.safe_str: str(o), or a placeholder when str(o) raises.
safe_str(o) == IF StrRaises(o) THEN "<unprintable object>" ELSE Str(o)

\* ' '.join(map(reflect.safe_str, edm))
RECURSIVE JoinFragments(_)
JoinFragments(edm) ==
    IF Len(edm) = 0 THEN ""
    ELSE IF Len(edm) = 1 THEN safe_str(edm[1])
    ELSE safe_str(edm[1]) \o " " \o JoinFragments(Tail(edm))

\* failure.Failure.getTraceback()
getTraceback(f) == "Traceback (most recent call last): " \o f

\* textFromEventDict's result: what it raised, whether it returned None, the
\* text it returned otherwise.
TextOf(text) == [raised |-> "none", isNone |-> FALSE, text |-> text]

TextNone == [raised |-> "none", isNone |-> TRUE, text |-> ""]

TextRaised(e) == [raised |-> e, isNone |-> FALSE, text |-> ""]

\* textFromEventDict with the format branch tested before the failure branch.
textFromEventDict_FormatFirst(eventDict, sig) ==
    IF "message" \notin DOMAIN eventDict THEN TextRaised("KeyError")
    ELSE IF eventDict["message"] = <<>> THEN
        IF "isError" \notin DOMAIN eventDict THEN TextRaised("KeyError")
        ELSE IF "format" \in DOMAIN eventDict THEN
            LET r == _safeFormat(eventDict["format"], eventDict, sig)
            IN  IF r.raised = "none" THEN TextOf(r.text) ELSE TextRaised(r.raised)
        ELSE IF Truthy(eventDict["isError"]) /\ "failure" \in DOMAIN eventDict THEN
            TextOf((IF "why" \in DOMAIN eventDict /\ ~Falsy(eventDict["why"])
                    THEN eventDict["why"] ELSE "Unhandled Error")
                   \o "\n" \o getTraceback(eventDict["failure"]))
        ELSE TextNone
    ELSE TextOf(JoinFragments(eventDict["message"]))

textFromEventDict(eventDict, sig) ==
    IF "message" \notin DOMAIN eventDict THEN TextRaised("KeyError")
    ELSE IF eventDict["message"] = <<>> THEN
        IF "isError" \notin DOMAIN eventDict THEN TextRaised("KeyError")
        ELSE IF Truthy(eventDict["isError"]) /\ "failure" \in DOMAIN eventDict THEN
            TextOf((IF "why" \in DOMAIN eventDict /\ ~Falsy(eventDict["why"])
                    THEN eventDict["why"] ELSE "Unhandled Error")
                   \o "\n" \o getTraceback(eventDict["failure"]))
        ELSE IF "format" \in DOMAIN eventDict THEN
            LET r == _safeFormat(eventDict["format"], eventDict, sig)
            IN  IF r.raised = "none" THEN TextOf(r.text) ELSE TextRaised(r.raised)
        ELSE TextNone
    ELSE TextOf(JoinFragments(eventDict["message"]))

---------------------------------------------------------------------------
(* publishToNewObserver                                                    *)

pythonLogLevelToNewLogLevelMapping ==
    (10 :> "debug") @@ (20 :> "info") @@ (30 :> "warn") @@ (40 :> "error")
        @@ (50 :> "error")

\* Lines 561-567 without the "log_format" not in eventDict guard.
SetLogText_NoGuard(eventDict, sig) ==
    LET t == textFromEventDict(eventDict, sig)
    IN  IF t.raised # "none" THEN [event |-> eventDict, outcome |-> t.raised]
        ELSE IF t.isNone THEN [event |-> eventDict, outcome |-> "dropped"]
        ELSE [event |-> Put(Put(eventDict, "log_text", t.text),
                            "log_format", "{log_text}"),
              outcome |-> "next"]

\* Lines 561-567 without "if text is None: return".
SetLogText_NoDrop(eventDict, sig) ==
    IF "log_format" \in DOMAIN eventDict
    THEN [event |-> eventDict, outcome |-> "next"]
    ELSE LET t == textFromEventDict(eventDict, sig)
         IN  IF t.raised # "none" THEN [event |-> eventDict, outcome |-> t.raised]
             ELSE [event |-> Put(Put(eventDict, "log_text",
                                     IF t.isNone THEN NoneValue ELSE t.text),
                                 "log_format", "{log_text}"),
                   outcome |-> "next"]

\* Lines 561-567: the result is the dict as it stands and how the step ended.
SetLogText(eventDict, sig) ==
    IF "log_format" \in DOMAIN eventDict
    THEN [event |-> eventDict, outcome |-> "next"]
    ELSE LET t == textFromEventDict(eventDict, sig)
         IN  IF t.raised # "none" THEN [event |-> eventDict, outcome |-> t.raised]
             ELSE IF t.isNone THEN [event |-> eventDict, outcome |-> "dropped"]
             ELSE [event |-> Put(Put(eventDict, "log_text", t.text),
                                 "log_format", "{log_text}"),
                   outcome |-> "next"]

\* Lines 569-577 with isError tested before logLevel.
SetLogLevel_IsErrorFirst(eventDict) ==
    IF "log_level" \in DOMAIN eventDict
    THEN [event |-> eventDict, outcome |-> "next"]
    ELSE IF "isError" \in DOMAIN eventDict /\ Truthy(eventDict["isError"])
        THEN [event |-> Put(eventDict, "log_level", "error"), outcome |-> "next"]
    ELSE IF "logLevel" \in DOMAIN eventDict THEN
        IF eventDict["logLevel"] \in DOMAIN pythonLogLevelToNewLogLevelMapping
        THEN [event |-> Put(eventDict, "log_level",
                            pythonLogLevelToNewLogLevelMapping[eventDict["logLevel"]]),
              outcome |-> "next"]
        ELSE [event |-> eventDict, outcome |-> "KeyError"]
    ELSE IF "isError" \notin DOMAIN eventDict
        THEN [event |-> eventDict, outcome |-> "KeyError"]
    ELSE [event |-> Put(eventDict, "log_level", "info"), outcome |-> "next"]

\* Lines 569-577 without the "log_level" not in eventDict guard.
SetLogLevel_Overwrite(eventDict) ==
    IF "logLevel" \in DOMAIN eventDict THEN
        IF eventDict["logLevel"] \in DOMAIN pythonLogLevelToNewLogLevelMapping
        THEN [event |-> Put(eventDict, "log_level",
                            pythonLogLevelToNewLogLevelMapping[eventDict["logLevel"]]),
              outcome |-> "next"]
        ELSE [event |-> eventDict, outcome |-> "KeyError"]
    ELSE IF "isError" \notin DOMAIN eventDict
        THEN [event |-> eventDict, outcome |-> "KeyError"]
    ELSE [event |-> Put(eventDict, "log_level",
                        IF Truthy(eventDict["isError"]) THEN "error" ELSE "info"),
          outcome |-> "next"]

\* Lines 569-577.
SetLogLevel(eventDict) ==
    IF "log_level" \in DOMAIN eventDict
    THEN [event |-> eventDict, outcome |-> "next"]
    ELSE IF "logLevel" \in DOMAIN eventDict THEN
        IF eventDict["logLevel"] \in DOMAIN pythonLogLevelToNewLogLevelMapping
        THEN [event |-> Put(eventDict, "log_level",
                            pythonLogLevelToNewLogLevelMapping[eventDict["logLevel"]]),
              outcome |-> "next"]
        ELSE [event |-> eventDict, outcome |-> "KeyError"]
    ELSE IF "isError" \notin DOMAIN eventDict
        THEN [event |-> eventDict, outcome |-> "KeyError"]
    ELSE [event |-> Put(eventDict, "log_level",
                        IF Truthy(eventDict["isError"]) THEN "error" ELSE "info"),
          outcome |-> "next"]

\* Lines 579-580.
SetLogNamespace(eventDict) ==
    IF "log_namespace" \in DOMAIN eventDict THEN eventDict
    ELSE Put(eventDict, "log_namespace", "log_legacy")

\* Lines 582-583.
SetLogSystem(eventDict) ==
    IF "log_system" \notin DOMAIN eventDict /\ "system" \in DOMAIN eventDict
    THEN Put(eventDict, "log_system", eventDict["system"])
    ELSE eventDict

\* The function up to its last line: the dict as it leaves it, and whether it
\* goes on to call observer(eventDict) ("publish"), returns without calling it
\* ("dropped") or raises.
publishToNewObserver(eventDict, sig) ==
    LET s1 == SetLogText(eventDict, sig)
        s2 == SetLogLevel(s1.event)
    IN  IF s1.outcome # "next" THEN s1
        ELSE IF s2.outcome # "next" THEN s2
        ELSE [event |-> SetLogSystem(SetLogNamespace(s2.event)),
              outcome |-> "publish"]

---------------------------------------------------------------------------
(* The context: callWithContext                                            *)

\* context.setDefault(ILogContext, {"isError": 0, "system": "-"})
DefaultContext == [isError |-> 0, system |-> "-"]

\* context.get(ILogContext): the innermost mapping, the default under all.
Current(stack) == stack[Len(stack)]

\* callWithContext with newCtx = context.get(ILogContext), the .copy() left
\* out: update() then writes into the caller's mapping.
callWithContext_NoCopy(stack, ctx) ==
    LET newCtx == Update(Current(stack), ctx)
    IN  Append([stack EXCEPT ![Len(stack)] = newCtx], newCtx)

\* Lines 77-79, up to the call of func: the mappings once
\* context.call({ILogContext: newCtx}, ...) has installed newCtx.
callWithContext(stack, ctx) ==
    LET newCtx == Update(Current(stack), ctx)
    IN  Append(stack, newCtx)

\* context.call's exit, on return and on exception alike: the mapping it
\* installed is taken off.
contextExit(stack) == SubSeq(stack, 1, Len(stack) - 1)

---------------------------------------------------------------------------
(* The registry: LogPublisher.observers, addObserver, removeObserver       *)

Publishers == {"theLogPublisher", "otherPublisher"}

Observers == {"f", "g", "bad"}

\* The observers that can raise when they are called.
RaisingObservers == {"bad"}

\* LegacyLogObserverWrapper(other) with .originator = self
LegacyLogObserverWrapper(self, other) ==
    [originator |-> self, legacyObserver |-> other]

\* filteredPublisher.addObserver(wrapped)
PublisherAdd(obs, wrapped) == Append(obs, wrapped)

\* filteredPublisher.removeObserver(observer): the list without its element i.
PublisherRemoveAt(obs, i) == SubSeq(obs, 1, i - 1) \o SubSeq(obs, i + 1, Len(obs))

\* The observers property of the publisher self.
observers(obs, self) ==
    LET mine == SelectSeq(obs, LAMBDA w : w.originator = self)
    IN  [i \in 1..Len(mine) |-> mine[i].legacyObserver]

\* addObserver that registers an observer once only.
addObserver_Dedupe(obs, self, other) ==
    IF \E i \in 1..Len(obs) : obs[i].legacyObserver = other
    THEN obs
    ELSE PublisherAdd(obs, LegacyLogObserverWrapper(self, other))

addObserver(obs, self, other) ==
    PublisherAdd(obs, LegacyLogObserverWrapper(self, other))

\* The for loop of removeObserver from element i on.
RECURSIVE removeObserverFrom(_, _, _, _)
removeObserverFrom(obs, i, self, other) ==
    IF i > Len(obs) THEN obs
    ELSE IF obs[i].originator = self /\ obs[i].legacyObserver = other
         THEN PublisherRemoveAt(obs, i)
         ELSE removeObserverFrom(obs, i + 1, self, other)

\* removeObserver without the test of the originator.
removeObserver_AnyOwner(obs, self, other) ==
    LET hits == {i \in 1..Len(obs) : obs[i].legacyObserver = other}
    IN  IF hits = {} THEN obs
        ELSE PublisherRemoveAt(obs, CHOOSE i \in hits : \A j \in hits : i <= j)

\* removeObserver without the break: every match is removed.
removeObserver_NoBreak(obs, self, other) ==
    SelectSeq(obs, LAMBDA w : ~(w.originator = self /\ w.legacyObserver = other))

removeObserver(obs, self, other) == removeObserverFrom(obs, 1, self, other)

---------------------------------------------------------------------------
(* LogPublisher.msg                                                        *)

\* msg with the keyword fields applied last.
msg_KwLast(ctx, message, kw, now) ==
    Update(Put(Put(ctx, "message", message), "time", now), kw)

\* Lines 207-210: actualEventDict.
msg(ctx, message, kw, now) ==
    Put(Put(Update(ctx, kw), "message", message), "time", now)

\* NewLogger.publisher called with the event: the observers are called with
\* it in the order of the list; one that raises ends the loop, and its
\* exception is not caught.  raising: the observers that raise on this call.
Dispatch(obs, eventDict, raising) ==
    LET bad == {i \in 1..Len(obs) : obs[i].legacyObserver \in raising}
        n == IF bad = {} THEN Len(obs) ELSE CHOOSE i \in bad : \A j \in bad : i <= j
    IN  [calls |-> [i \in 1..n |-> [originator |-> obs[i].originator,
                                    legacyObserver |-> obs[i].legacyObserver,
                                    eventDict |-> eventDict]],
         raised |-> IF bad = {} THEN "none" ELSE "Exception"]

\* observer(eventDict), line 585, when publishToNewObserver came to it with
\* the outcome r.
DispatchIf(obs, r, raising) ==
    IF r.outcome = "publish" THEN Dispatch(obs, r.event, raising)
    ELSE [calls |-> <<>>, raised |-> "none"]

\* What a call of msg did: the event built, what publishToNewObserver made of
\* it (r), the observers called and what the dispatch raised (d), and what
\* came out of msg.
msgOutcome(built, r, d) ==
    [built |-> built, event |-> r.event, normalized |-> r.outcome,
     calls |-> d.calls,
     raised |-> IF r.outcome \in {"publish", "dropped"} THEN d.raised
                ELSE r.outcome,
     observerRaised |-> d.raised # "none"]

\* Line 212: publishToNewObserver(NewLogger.publisher, actualEventDict).
msgPublish(obs, actualEventDict, sig, raising) ==
    msgOutcome(actualEventDict, publishToNewObserver(actualEventDict, sig),
               DispatchIf(obs, publishToNewObserver(actualEventDict, sig), raising))

\* msg with line 212 wrapped in a try/except that drops an observer's
\* exception.
msgCall_CatchObserver(obs, ctx, message, kw, now, sig, raising) ==
    [msgPublish(obs, msg(ctx, message, kw, now), sig, raising)
        EXCEPT !.raised = IF @ = "Exception" THEN "none" ELSE @]

\* The whole of msg(*message, **kw) at time now with the mapping ctx current
\* and the observers obs registered.  sig: the tier of _safeFormat, if it
\* runs, in which a KeyboardInterrupt is raised.
msgCall(obs, ctx, message, kw, now, sig, raising) ==
    msgPublish(obs, msg(ctx, message, kw, now), sig, raising)

---------------------------------------------------------------------------
(* err                                                                     *)

\* Exception instances: the one logPrefix and func raise, and another.
ExceptionValues == {"Exception", "ValueError(boom)"}

\* failure.Failure(e): a Failure that wraps the exception e.  Failure() with
\* no argument wraps the exception being handled.
Failure(e) == "Failure: " \o e

FailureValues == {Failure(e) : e \in ExceptionValues}

\* Values that are neither a Failure nor an Exception.
OtherValues == {"oops"}

\* The call of err without isError=1: isError is left to the context.
errOf_NoIsError(_stuff, _why, kw) ==
    IF _stuff \in FailureValues \cup ExceptionValues THEN
        IF DOMAIN kw \cap {"failure", "why"} # {}
        THEN [raised |-> "TypeError", message |-> <<>>, kw |-> EmptyDict]
        ELSE [raised |-> "none", message |-> <<>>,
              kw |-> Update(kw, [failure |-> IF _stuff \in FailureValues THEN _stuff
                                             ELSE Failure(_stuff),
                                 why |-> _why])]
    ELSE
        IF DOMAIN kw \cap {"why"} # {}
        THEN [raised |-> "TypeError", message |-> <<>>, kw |-> EmptyDict]
        ELSE [raised |-> "none", message |-> <<Repr(_stuff)>>,
              kw |-> Update(kw, [why |-> _why])]

\* The call err makes once _stuff is not None.  msg(failure=..., why=...,
\* isError=1, **kw) is a TypeError when kw names one of the keywords the call
\* spells out.
errOf(_stuff, _why, kw) ==
    IF _stuff \in FailureValues \cup ExceptionValues THEN
        IF DOMAIN kw \cap {"failure", "why", "isError"} # {}
        THEN [raised |-> "TypeError", message |-> <<>>, kw |-> EmptyDict]
        ELSE [raised |-> "none", message |-> <<>>,
              kw |-> Update(kw, [failure |-> IF _stuff \in FailureValues THEN _stuff
                                             ELSE Failure(_stuff),
                                 why |-> _why, isError |-> 1])]
    ELSE
        IF DOMAIN kw \cap {"why", "isError"} # {}
        THEN [raised |-> "TypeError", message |-> <<>>, kw |-> EmptyDict]
        ELSE [raised |-> "none", message |-> <<Repr(_stuff)>>,
              kw |-> Update(kw, [why |-> _why, isError |-> 1])]

\* Lines 122-129: the msg call that err(_stuff, _why, **kw) makes, or what it
\* raises before it.  inFlight: the exception being handled where err is
\* called ("none": there is none).
err(_stuff, _why, kw, inFlight) ==
    IF _stuff = NoneValue THEN
        IF inFlight = "none"
        THEN [raised |-> "NoCurrentExceptionError", message |-> <<>>, kw |-> EmptyDict]
        ELSE errOf(Failure(inFlight), _why, kw)
    ELSE errOf(_stuff, _why, kw)

\* err as a whole: c is the call it makes (err above), made with the mapping
\* ctx current and the observers obs registered.
errCall(obs, ctx, c, now, raising) ==
    IF c.raised # "none"
    THEN [called |-> FALSE, raised |-> c.raised, observerRaised |-> FALSE]
    ELSE [called |-> TRUE] @@ msgCall(obs, ctx, c.message, c.kw, now, "none", raising)

---------------------------------------------------------------------------
(* callWithLogger.  What logger.logPrefix() and func do are inputs: each   *)
(* returns ("return") or raises ("Exception", "KeyboardInterrupt").  The   *)
(* result is the trace of what was called, in order (an "err" step: a call *)
(* of err and what it did; a "func" step: the call of func and the mapping *)
(* current inside it), and what callWithLogger raised.                     *)

Outcomes == {"return", "Exception", "KeyboardInterrupt"}

\* What logPrefix returns when it returns.
OwnerLabel == "owner"

BuggyLogPrefix == "(buggy logPrefix method)"

\* err(system=lp) in an except clause.
errStep(obs, ctx, lp, now, raising) ==
    [step |-> "err"]
        @@ errCall(obs, ctx, err(NoneValue, NoneValue, [system |-> lp], "Exception"),
                   now, raising)

\* func called by callWithContext({"system": lp}, func, ...).
funcStep(stack, lp) ==
    [step |-> "func", context |-> Current(callWithContext(stack, [system |-> lp]))]

\* Lines 93-98 with the exception of func swallowed and not logged.
cwlFunc_NoLog(obs, stack, lp, fnOutcome, now, raising, trace) ==
    IF fnOutcome = "KeyboardInterrupt"
    THEN [trace |-> Append(trace, funcStep(stack, lp)), raised |-> "KeyboardInterrupt"]
    ELSE [trace |-> Append(trace, funcStep(stack, lp)), raised |-> "none"]

\* The end of lines 93-98: func has raised an exception that is no
\* KeyboardInterrupt, context.call has put the mapping back, and err(system=lp)
\* (the step e) is called.
cwlLogged(trace, f, e) == [trace |-> trace \o <<f, e>>, raised |-> e.raised]

\* Lines 93-98.
cwlFunc(obs, stack, lp, fnOutcome, now, raising, trace) ==
    IF fnOutcome = "return"
    THEN [trace |-> Append(trace, funcStep(stack, lp)), raised |-> "none"]
    ELSE IF fnOutcome = "KeyboardInterrupt"
    THEN [trace |-> Append(trace, funcStep(stack, lp)), raised |-> "KeyboardInterrupt"]
    ELSE cwlLogged(trace, funcStep(stack, lp),
                   errStep(obs, Current(contextExit(callWithContext(stack,
                                                        [system |-> lp]))),
                           lp, now, raising))

\* Lines 86-92 with the placeholder substituted and nothing reported.
cwlPrefix_NoReport(obs, stack, lpOutcome, now, raising) ==
    IF lpOutcome = "return"
    THEN [lp |-> OwnerLabel, trace |-> <<>>, raised |-> "none"]
    ELSE IF lpOutcome = "KeyboardInterrupt"
    THEN [lp |-> "", trace |-> <<>>, raised |-> "KeyboardInterrupt"]
    ELSE [lp |-> BuggyLogPrefix, trace |-> <<>>, raised |-> "none"]

\* The end of lines 86-92: logPrefix has raised and err(system=lp) (the step
\* e) is called.
cwlReported(e) == [lp |-> BuggyLogPrefix, trace |-> <<e>>, raised |-> e.raised]

\* Lines 86-92: the label, the err call made for it, what was raised.
cwlPrefix(obs, stack, lpOutcome, now, raising) ==
    IF lpOutcome = "return"
    THEN [lp |-> OwnerLabel, trace |-> <<>>, raised |-> "none"]
    ELSE IF lpOutcome = "KeyboardInterrupt"
    THEN [lp |-> "", trace |-> <<>>, raised |-> "KeyboardInterrupt"]
    ELSE cwlReported(errStep(obs, Current(stack), BuggyLogPrefix, now, raising))

\* Lines 93-98 after lines 86-92 ended as p says.
cwlThen(p, obs, stack, fnOutcome, now, raising) ==
    IF p.raised # "none" THEN [trace |-> p.trace, raised |-> p.raised]
    ELSE cwlFunc(obs, stack, p.lp, fnOutcome, now, raising, p.trace)

\* callWithLogger(logger, func): raising1 and raising2 are the observers that
\* raise when they are called with the first and the second event.
callWithLogger(obs, stack, lpOutcome, fnOutcome, now, raising1, raising2) ==
    cwlThen(cwlPrefix(obs, stack, lpOutcome, now, raising1),
            obs, stack, fnOutcome, now, raising2)

---------------------------------------------------------------------------
(* StdioOnnaStick.  The data written and buf are strings held as sequences *)
(* of characters, so that split can look at each character.                *)

Newline == "\n"

Chars == {"a", Newline}

\* The str of a sequence of characters.
RECURSIVE StrOf(_)
StrOf(cs) == IF cs = <<>> THEN "" ELSE Head(cs) \o StrOf(Tail(cs))

\* The rest of split, r, with the character c put in front of its first
\* piece.
SplitCons(c, r) == <<<<c>> \o Head(r)>> \o Tail(r)

\* cs.split('\n'): the pieces between the newlines, one more than there are
\* newlines.
RECURSIVE Split(_)
Split(cs) ==
    IF cs = <<>> THEN << <<>> >>
    ELSE IF Head(cs) = Newline THEN << <<>> >> \o Split(Tail(cs))
    ELSE SplitCons(Head(cs), Split(Tail(cs)))

\* Lines 432-434 with d = data.split('\n'): buf is not put in front.
stdioSplit_NoBuf(buf, data) ==
    [buf |-> Split(data)[Len(Split(data))],
     messages |-> SubSeq(Split(data), 1, Len(Split(data)) - 1)]

\* Lines 432-434: the new buf and the messages to log.
stdioSplit(buf, data) ==
    [buf |-> Split(buf \o data)[Len(Split(buf \o data))],
     messages |-> SubSeq(Split(buf \o data), 1, Len(Split(buf \o data)) - 1)]

\* What the history keeps of msg(message, printed=1, isError=self.isError)
\* that did c: the line and the event built.
Emitted(line, c) == [line |-> line, event |-> c.built, raised |-> c.raised]

\* Lines 435-436: the loop over messages; a msg that raises ends it.  done:
\* the calls made so far.
RECURSIVE writeLoop(_, _, _, _, _, _, _)
RECURSIVE writeNext(_, _, _, _, _, _, _, _)
writeLoop(obs, ctx, messages, isError, now, raising, done) ==
    IF messages = <<>>
    THEN [emitted |-> done, raised |-> "none", observerRaised |-> FALSE]
    ELSE writeNext(obs, ctx, messages, isError, now, raising, done,
                   msgCall(obs, ctx, <<StrOf(Head(messages))>>,
                           [printed |-> 1, isError |-> isError], now, "none",
                           raising))

\* The loop after its msg call for Head(messages) did c.
writeNext(obs, ctx, messages, isError, now, raising, done, c) ==
    IF c.raised # "none"
    THEN [emitted |-> Append(done, Emitted(Head(messages), c)),
          raised |-> c.raised, observerRaised |-> c.observerRaised]
    ELSE writeLoop(obs, ctx, Tail(messages), isError, now, raising,
                   Append(done, Emitted(Head(messages), c)))

---------------------------------------------------------------------------
(* Idle values of each machine's variables, for the specifications that do *)
(* not run it.                                                             *)

FmtIdle ==
    /\ sfPc = "idle"
    /\ sfIn = [fmtString |-> "", fmtDict |-> EmptyDict, sig |-> "none"]
    /\ sfOut = Returned("")

TextIdle ==
    /\ tPc = "idle"
    /\ tIn = [eventDict |-> EmptyDict, sig |-> "none"]
    /\ tOut = TextNone

StdioIdle ==
    /\ stdio = [isError |-> 0, buf |-> <<>>]
    /\ written = <<>>
    /\ emitted = <<>>

NormIdle ==
    /\ nPc = "idle"
    /\ nIn = [event |-> EmptyDict, sig |-> "none"]
    /\ nOnce = [event |-> EmptyDict, outcome |-> "none"]
    /\ nTwice = [event |-> EmptyDict, outcome |-> "none"]

PubIdle ==
    /\ registry = <<>>
    /\ owned = <<>>
    /\ ctxStack = <<DefaultContext>>
    /\ saved = <<>>
    /\ exc = "none"
    /\ last = [op |-> "none"]
    /\ aborted = FALSE

NumThreads == 2

Threads == 1..NumThreads

ThIdle ==
    /\ thPc = [t \in Threads |-> "idle"]
    /\ thArg = [t \in Threads |-> ""]
    /\ thIdx = [t \in Threads |-> 0]
    /\ thLock = 0

---------------------------------------------------------------------------
(* SpecFormat: _safeFormat on drawn arguments.                             *)

Opt(k, V) == {EmptyDict} \cup {k :> v : v \in V}

FormatStrings == Templates \cup {NoneValue, BadRepr}

FormatDicts ==
    {a @@ b @@ c : a \in Opt("system", {"-"}),
                   b \in Opt("obj", {"v", BadStr, BadRepr}),
                   c \in Opt("message", {<<>>})}

InitFormat ==
    /\ sfPc = "call"
    /\ sfIn \in [fmtString : FormatStrings, fmtDict : FormatDicts, sig : Signals]
    /\ sfOut = Returned("")
    /\ NormIdle /\ TextIdle /\ PubIdle /\ StdioIdle /\ ThIdle

SafeFormatCall ==
    /\ sfPc = "call"
    /\ sfOut' = _safeFormat(sfIn.fmtString, sfIn.fmtDict, sfIn.sig)
    /\ sfPc' = "done"
    /\ UNCHANGED <<sfIn, normVars, textVars, stdioVars, pubVars, thVars>>

NextFormat == SafeFormatCall

SpecFormat == InitFormat /\ [][NextFormat]_vars

---------------------------------------------------------------------------
(* SpecText: textFromEventDict on a drawn event.  The events are those an  *)
(* observer is passed: msg gives every event a message, and isError comes  *)
(* from the context's defaults.                                            *)

TextEvents ==
    {m @@ e @@ f @@ x @@ s @@ o :
        m \in {[message |-> <<>>], [message |-> <<"a", "b">>],
               [message |-> <<BadStr>>]},
        e \in {[isError |-> 0], [isError |-> 1]},
        f \in Opt("format", {"%(system)s", "obj=%(obj)s"}),
        x \in {EmptyDict, [failure |-> "F"], [failure |-> "F", why |-> "X"],
               [failure |-> "F", why |-> ""], [failure |-> "F", why |-> NoneValue],
               [why |-> "X"]},
        s \in Opt("system", {"-"}),
        o \in Opt("obj", {BadRepr})}

InitText ==
    /\ tPc = "call"
    /\ tIn \in [eventDict : TextEvents, sig : {"none", "tier0"}]
    /\ tOut = TextNone
    /\ FmtIdle /\ NormIdle /\ PubIdle /\ StdioIdle /\ ThIdle

TextFromEventDictCall ==
    /\ tPc = "call"
    /\ tOut' = textFromEventDict(tIn.eventDict, tIn.sig)
    /\ tPc' = "done"
    /\ UNCHANGED <<tIn, fmtVars, normVars, pubVars, stdioVars, thVars>>

NextText == TextFromEventDictCall

SpecText == InitText /\ [][NextText]_vars

---------------------------------------------------------------------------
(* SpecNorm: publishToNewObserver on a drawn event, then again on the dict *)
(* the first call left.                                                    *)

NormEvents ==
    {m @@ e @@ f @@ x @@ lv @@ s @@ o @@ lf @@ ll @@ lt :
        m \in Opt("message", {<<>>, <<"a", "b">>}),
        e \in Opt("isError", {0, 1}),
        f \in Opt("format", {"%(system)s", "obj=%(obj)s"}),
        x \in {EmptyDict, [failure |-> "F"], [failure |-> "F", why |-> "X"]},
        lv \in Opt("logLevel", {10, 20, 30, 40, 50, 60}),
        s \in Opt("system", {"-"}),
        o \in Opt("obj", {BadRepr}),
        lf \in Opt("log_format", {"{x}"}),
        ll \in Opt("log_level", {"warn"}),
        lt \in Opt("log_text", {"preset"})}

InitNorm ==
    /\ nPc = "call"
    /\ nIn \in [event : NormEvents, sig : {"none", "tier0"}]
    /\ nOnce = [event |-> EmptyDict, outcome |-> "none"]
    /\ nTwice = [event |-> EmptyDict, outcome |-> "none"]
    /\ FmtIdle /\ TextIdle /\ PubIdle /\ StdioIdle /\ ThIdle

NormalizeOnce ==
    /\ nPc = "call"
    /\ nOnce' = publishToNewObserver(nIn.event, nIn.sig)
    /\ nPc' = "once"
    /\ UNCHANGED <<nIn, nTwice, fmtVars, textVars, stdioVars, pubVars, thVars>>

\* The dict is mutated in place, so a second pass sees what the first left.
NormalizeTwice ==
    /\ nPc = "once"
    /\ nTwice' = publishToNewObserver(nOnce.event, nIn.sig)
    /\ nPc' = "twice"
    /\ UNCHANGED <<nIn, nOnce, fmtVars, textVars, stdioVars, pubVars, thVars>>

NextNorm == NormalizeOnce \/ NormalizeTwice

SpecNorm == InitNorm /\ [][NextNorm]_vars

---------------------------------------------------------------------------
(* Spec: one thread of control calling the publisher and the context.      *)

MaxObservers == 3

MaxDepth == 2

MaxTime == 1

\* time.time()
Times == 1..MaxTime

\* The ctx arguments of callWithContext.
Overlays == {[system |-> "X"], [system |-> "Y", isError |-> 1], [obj |-> "v"]}

\* The positional arguments of msg.
Messages == {<<>>, <<"a", "b">>}

\* The keyword arguments of msg in Spec.
PublisherKeywords ==
    {EmptyDict,
     [format |-> "obj=%(obj)s"],
     [isError |-> 1, failure |-> "F", why |-> "X"],
     [log_format |-> "{x}"],
     [logLevel |-> 60]}

\* The keyword arguments of msg in SpecContext.
ContextKeywords ==
    {EmptyDict,
     [format |-> "%(system)s"],
     [format |-> "obj=%(obj)s"],
     [isError |-> 0, system |-> "kw"],
     [isError |-> 1, failure |-> "F"],
     [message |-> <<"kw">>, time |-> 0]}

\* The ctx arguments of the callWithContext calls in progress, outermost first.
ActiveOverlays == [i \in 1..Len(saved) |-> saved[i].overlay]

\* The first registration of (owner, observer) taken out of the history.
Forget(regs, owner, observer) ==
    LET hits == {i \in 1..Len(regs) :
                    regs[i].owner = owner /\ regs[i].observer = observer}
    IN  IF hits = {} THEN regs
        ELSE LET i == CHOOSE i \in hits : \A j \in hits : i <= j
             IN  SubSeq(regs, 1, i - 1) \o SubSeq(regs, i + 1, Len(regs))

Init == PubIdle /\ FmtIdle /\ TextIdle /\ NormIdle /\ StdioIdle /\ ThIdle

AddObserver(self, other) ==
    /\ exc = "none"
    /\ Len(registry) < MaxObservers
    /\ registry' = addObserver(registry, self, other)
    /\ owned' = Append(owned, [owner |-> self, observer |-> other])
    /\ last' = [op |-> "addObserver", self |-> self, other |-> other,
                before |-> registry]
    /\ UNCHANGED <<ctxStack, saved, exc, aborted, funVars, stdioVars, thVars>>

RemoveObserver(self, other) ==
    /\ exc = "none"
    /\ registry' = removeObserver(registry, self, other)
    /\ owned' = Forget(owned, self, other)
    /\ last' = [op |-> "removeObserver", self |-> self, other |-> other,
                before |-> registry]
    /\ UNCHANGED <<ctxStack, saved, exc, aborted, funVars, stdioVars, thVars>>

\* msg(*message, **kw) on any LogPublisher, at time now; sig: the tier of
\* _safeFormat, if it runs, in which a KeyboardInterrupt is raised; raising:
\* the observers that raise when they are called with this event.
Msg(message, kw, now, sig, raising) ==
    /\ exc = "none"
    /\ last' = [op |-> "msg", message |-> message, kw |-> kw, now |-> now,
                sig |-> sig, raising |-> raising, before |-> registry,
                overlays |-> ActiveOverlays, registered |-> owned,
                afterAbort |-> aborted]
                @@ msgCall(registry, Current(ctxStack), message, kw, now, sig, raising)
    /\ exc' = last'.raised
    /\ aborted' = (aborted \/ last'.observerRaised)
    /\ UNCHANGED <<registry, owned, ctxStack, saved, funVars, stdioVars, thVars>>

\* callWithContext(ctx, func) up to the entry of func.
CallWithContext(ctx) ==
    /\ exc = "none"
    /\ Len(saved) < MaxDepth
    /\ ctxStack' = callWithContext(ctxStack, ctx)
    /\ saved' = Append(saved, [prior |-> Current(ctxStack), overlay |-> ctx])
    /\ last' = [op |-> "callWithContext", ctx |-> ctx]
    /\ UNCHANGED <<registry, owned, exc, aborted, funVars, stdioVars, thVars>>

\* func returns: callWithContext returns.
Return ==
    /\ exc = "none"
    /\ Len(saved) > 0
    /\ ctxStack' = contextExit(ctxStack)
    /\ saved' = SubSeq(saved, 1, Len(saved) - 1)
    /\ last' = [op |-> "return", prior |-> saved[Len(saved)].prior]
    /\ UNCHANGED <<registry, owned, exc, aborted, funVars, stdioVars, thVars>>

\* The code of func raises e.
Raise(e) ==
    /\ exc = "none"
    /\ Len(saved) > 0
    /\ exc' = e
    /\ last' = [op |-> "raise", e |-> e]
    /\ UNCHANGED <<registry, owned, ctxStack, saved, aborted, funVars, stdioVars, thVars>>

\* The exception leaves func: callWithContext ends with it.
Unwind ==
    /\ exc # "none"
    /\ Len(saved) > 0
    /\ ctxStack' = contextExit(ctxStack)
    /\ saved' = SubSeq(saved, 1, Len(saved) - 1)
    /\ last' = [op |-> "unwind", prior |-> saved[Len(saved)].prior]
    /\ UNCHANGED <<registry, owned, exc, aborted, funVars, stdioVars, thVars>>

\* The caller at this level (func's own handler, or the producer at the top)
\* handles the exception.
Catch ==
    /\ exc # "none"
    /\ exc' = "none"
    /\ last' = [op |-> "catch", e |-> exc]
    /\ UNCHANGED <<registry, owned, ctxStack, saved, aborted, funVars, stdioVars, thVars>>

\* Spec: a producer that registers and removes observers and logs, outside
\* any callWithContext and with no interrupt.
Next ==
    \/ \E self \in Publishers, other \in Observers : AddObserver(self, other)
    \/ \E self \in Publishers, other \in Observers : RemoveObserver(self, other)
    \/ \E message \in Messages, kw \in PublisherKeywords, now \in Times,
          raising \in SUBSET RaisingObservers :
            Msg(message, kw, now, "none", raising)
    \/ Catch

Spec == Init /\ [][Next]_vars

\* SpecContext: a producer that logs inside nested callWithContext calls.
NextContext ==
    \/ \E message \in Messages, kw \in ContextKeywords, now \in Times,
          sig \in {"none", "tier0"}, raising \in SUBSET RaisingObservers :
            Msg(message, kw, now, sig, raising)
    \/ \E ctx \in Overlays : CallWithContext(ctx)
    \/ Return
    \/ \E e \in {"Exception", "KeyboardInterrupt"} : Raise(e)
    \/ Unwind
    \/ Catch

SpecContext == Init /\ [][NextContext]_vars

---------------------------------------------------------------------------
(* SpecReport: err and callWithLogger, with observers registered.          *)

\* The arguments of err.
ErrStuff ==
    {NoneValue, Failure("ValueError(boom)"), "ValueError(boom)"} \cup OtherValues

ErrWhy == {NoneValue, "", "ctx"}

ErrKeywords ==
    {EmptyDict, [system |-> "X"], [logLevel |-> 30], [log_format |-> "{x}"],
     [isError |-> 0]}

\* err(_stuff, _why, **kw) called where inFlight is the exception being
\* handled.
Err(_stuff, _why, kw, inFlight, now, raising) ==
    /\ exc = "none"
    /\ last' = [op |-> "err", stuff |-> _stuff, why |-> _why, kw |-> kw,
                inFlight |-> inFlight, raising |-> raising, before |-> registry,
                registered |-> owned]
                @@ errCall(registry, Current(ctxStack),
                           err(_stuff, _why, kw, inFlight), now, raising)
    /\ exc' = last'.raised
    /\ aborted' = (aborted \/ last'.observerRaised)
    /\ UNCHANGED <<registry, owned, ctxStack, saved, funVars, stdioVars, thVars>>

\* callWithLogger(logger, func) from its call to its end; the context is the
\* same after it as before.
CallWithLogger(lpOutcome, fnOutcome, now, raising1, raising2) ==
    /\ exc = "none"
    /\ last' = [op |-> "callWithLogger", lpOutcome |-> lpOutcome,
                fnOutcome |-> fnOutcome, raising1 |-> raising1,
                raising2 |-> raising2, before |-> registry, registered |-> owned]
                @@ callWithLogger(registry, ctxStack, lpOutcome, fnOutcome, now,
                                  raising1, raising2)
    /\ exc' = last'.raised
    /\ aborted' = (aborted \/ \E i \in 1..Len(last'.trace) :
                                  /\ last'.trace[i].step = "err"
                                  /\ last'.trace[i].observerRaised)
    /\ UNCHANGED <<registry, owned, ctxStack, saved, funVars, stdioVars, thVars>>

\* The observers of SpecReport and SpecStdio: registered by theLogPublisher.
NextReport ==
    \/ \E other \in {"f", "bad"} : AddObserver("theLogPublisher", other)
    \/ \E _stuff \in ErrStuff, _why \in ErrWhy, kw \in ErrKeywords,
          inFlight \in {"none", "Exception"}, now \in Times,
          raising \in SUBSET RaisingObservers :
            Err(_stuff, _why, kw, inFlight, now, raising)
    \/ \E lpOutcome \in Outcomes, fnOutcome \in Outcomes, now \in Times,
          raising1 \in SUBSET RaisingObservers,
          raising2 \in SUBSET RaisingObservers :
            CallWithLogger(lpOutcome, fnOutcome, now, raising1, raising2)
    \/ Catch

SpecReport == Init /\ [][NextReport]_vars

---------------------------------------------------------------------------
(* SpecStdio: writes to a StdioOnnaStick, with observers registered.       *)

MaxData == 3

MaxWritten == 4

\* The data of one write.
RECURSIVE DataOfLen(_)
DataOfLen(n) ==
    IF n = 0 THEN {<<>>}
    ELSE {Append(cs, c) : cs \in DataOfLen(n - 1), c \in Chars}

Data == UNION {DataOfLen(n) : n \in 0..MaxData}

\* StdioOnnaStick(isError), new: buf is empty.
InitStdio ==
    /\ stdio \in {[isError |-> e, buf |-> <<>>] : e \in {0, 1}}
    /\ written = <<>>
    /\ emitted = <<>>
    /\ PubIdle /\ FmtIdle /\ TextIdle /\ NormIdle /\ ThIdle

\* write(data), with the observers of raising raising when they are called.
Write(data, now, raising) ==
    /\ exc = "none"
    /\ Len(written) + Len(data) <= MaxWritten
    /\ stdio' = [stdio EXCEPT !.buf = stdioSplit(stdio.buf, data).buf]
    /\ last' = [op |-> "write", data |-> data, bufBefore |-> stdio.buf,
                raising |-> raising, before |-> registry]
                @@ writeLoop(registry, Current(ctxStack),
                             stdioSplit(stdio.buf, data).messages, stdio.isError,
                             now, raising, <<>>)
    /\ emitted' = emitted \o last'.emitted
    /\ written' = written \o data
    /\ exc' = last'.raised
    /\ aborted' = (aborted \/ last'.observerRaised)
    /\ UNCHANGED <<registry, owned, ctxStack, saved, funVars, thVars>>

NextStdio ==
    \/ \E other \in {"f", "bad"} : AddObserver("theLogPublisher", other)
    \/ \E data \in Data, now \in Times, raising \in SUBSET RaisingObservers :
          Write(data, now, raising)
    \/ Catch

SpecStdio == InitStdio /\ [][NextStdio]_vars

---------------------------------------------------------------------------
(* SpecThreads: threads calling the module-level addObserver,              *)
(* removeObserver and msg of theLogPublisher.  A call of a method named in *)
(* synchronized holds the publisher's lock from entry to exit; the         *)
(* dispatch loop of msg calls one observer per step.                       *)

\* LogPublisher.synchronized = ['msg']
synchronized == {"msg"}

InitThreads ==
    PubIdle /\ FmtIdle /\ TextIdle /\ NormIdle /\ StdioIdle /\ ThIdle

\* What leaving the method op does to the lock.
Released(op) == IF op \in synchronized THEN 0 ELSE thLock

\* Thread t enters op: it waits for the lock when op is synchronized.  A msg
\* builds and normalizes its event on entry, and goes on to the dispatch loop
\* when the event is to be published.
ThCall(t, op, other, message) ==
    LET r == publishToNewObserver(msg(Current(ctxStack), message, EmptyDict, 1),
                                  "none")
        enters == op # "msg" \/ r.outcome = "publish"
    IN  /\ thPc[t] = "idle"
        /\ op \in synchronized => thLock = 0
        /\ op = "addObserver" => Len(registry) < MaxObservers
        /\ thPc' = [thPc EXCEPT ![t] = IF enters THEN op ELSE "idle"]
        /\ thArg' = [thArg EXCEPT ![t] = IF op = "msg" THEN "" ELSE other]
        /\ thIdx' = [thIdx EXCEPT ![t] = IF op = "msg" /\ enters THEN 1 ELSE 0]
        /\ thLock' = IF op \in synchronized /\ enters THEN t ELSE thLock
        /\ UNCHANGED <<pubVars, funVars, stdioVars>>

\* The loop of msg calls the next observer of the list; when it raises
\* (raises), that ends the call.
ThDispatch(t, raises) ==
    /\ thPc[t] = "msg"
    /\ thIdx[t] <= Len(registry)
    /\ raises => registry[thIdx[t]].legacyObserver \in RaisingObservers
    /\ IF raises
       THEN /\ thPc' = [thPc EXCEPT ![t] = "idle"]
            /\ thIdx' = [thIdx EXCEPT ![t] = 0]
            /\ thLock' = Released("msg")
       ELSE /\ thIdx' = [thIdx EXCEPT ![t] = thIdx[t] + 1]
            /\ UNCHANGED <<thPc, thLock>>
    /\ UNCHANGED <<thArg, pubVars, funVars, stdioVars>>

\* The loop of msg is past the end of the list: msg returns.
ThMsgReturn(t) ==
    /\ thPc[t] = "msg"
    /\ thIdx[t] > Len(registry)
    /\ thPc' = [thPc EXCEPT ![t] = "idle"]
    /\ thIdx' = [thIdx EXCEPT ![t] = 0]
    /\ thLock' = Released("msg")
    /\ UNCHANGED <<thArg, pubVars, funVars, stdioVars>>

ThAddObserver(t) ==
    /\ thPc[t] = "addObserver"
    /\ registry' = addObserver(registry, "theLogPublisher", thArg[t])
    /\ owned' = Append(owned, [owner |-> "theLogPublisher", observer |-> thArg[t]])
    /\ thPc' = [thPc EXCEPT ![t] = "idle"]
    /\ thArg' = [thArg EXCEPT ![t] = ""]
    /\ thLock' = Released("addObserver")
    /\ UNCHANGED <<thIdx, ctxStack, saved, exc, last, aborted, funVars, stdioVars>>

ThRemoveObserver(t) ==
    /\ thPc[t] = "removeObserver"
    /\ registry' = removeObserver(registry, "theLogPublisher", thArg[t])
    /\ owned' = Forget(owned, "theLogPublisher", thArg[t])
    /\ thPc' = [thPc EXCEPT ![t] = "idle"]
    /\ thArg' = [thArg EXCEPT ![t] = ""]
    /\ thLock' = Released("removeObserver")
    /\ UNCHANGED <<thIdx, ctxStack, saved, exc, last, aborted, funVars, stdioVars>>

NextThreads ==
    \E t \in Threads :
        \/ \E op \in {"msg", "addObserver", "removeObserver"},
              other \in Observers, message \in Messages :
                ThCall(t, op, other, message)
        \/ \E raises \in BOOLEAN : ThDispatch(t, raises)
        \/ ThMsgReturn(t)
        \/ ThAddObserver(t)
        \/ ThRemoveObserver(t)

SpecThreads == InitThreads /\ [][NextThreads]_vars

---------------------------------------------------------------------------
(* Properties of _safeFormat (SpecFormat)                                  *)

\* The tier whose evaluation raised the KeyboardInterrupt of sfIn.sig, given
\* that the tier was evaluated at all: tier 1 is evaluated when tier 0 raised
\* an exception, tier 2 when tier 1 raised as well.
InterruptRaised ==
    LET f == sfIn.fmtString
        d == sfIn.fmtDict
    IN  \/ sfIn.sig = "tier0"
        \/ sfIn.sig = "tier1" /\ ModRaises(f, d)
        \/ sfIn.sig = "tier2" /\ ModRaises(f, d)
                              /\ (ReprRaises(f) \/ DictReprRaises(d))

\* What each tier raised in the call of sfIn.
SfRaised0 == Tier0Raises(sfIn.fmtString, sfIn.fmtDict, sfIn.sig)

SfRaised1 == Tier1Raises(sfIn.fmtString, sfIn.fmtDict, sfIn.sig)

SfRaised2 == Tier2Raises(sfIn.fmtString, sfIn.sig)

\* Tier k's string is what is returned exactly when tiers 0..k-1 raised and
\* tier k did not.
TierLadder ==
    /\ SfRaised0 = "none" => sfOut.text = Tier0Text(sfIn.fmtString, sfIn.fmtDict)
    /\ SfRaised0 # "none" /\ SfRaised1 = "none"
          => sfOut.text = Tier1Text(sfIn.fmtString, sfIn.fmtDict)
    /\ SfRaised0 # "none" /\ SfRaised1 # "none" /\ SfRaised2 = "none"
          => sfOut.text = Tier2Text(sfIn.fmtString)
    /\ SfRaised0 # "none" /\ SfRaised1 # "none" /\ SfRaised2 # "none"
          => sfOut.text = PathologicalText

\* C9 as stated: for any template and field mapping, fields whose
\* stringification raises included, _safeFormat returns a string and never
\* raises, and the string is tier k's exactly when tiers 0..k-1 each raised and
\* tier k did not.
C9_NeverRaises ==
    sfPc = "done" => sfOut.raised = "none" /\ TierLadder

\* C9, amended: _safeFormat returns a string and never raises, except that a
\* KeyboardInterrupt raised while tier 0 is evaluated propagates; when it
\* returns, the string is tier k's exactly when tiers 0..k-1 each raised and
\* tier k did not, the last tier being a constant.
C9_NeverRaisesButTier0Interrupt ==
    sfPc = "done" =>
        IF SfRaised0 = "KeyboardInterrupt"
        THEN sfOut = Raised("KeyboardInterrupt")
        ELSE sfOut.raised = "none" /\ TierLadder

\* A call in which tiers 0, 1 and 2 each raised an exception and the constant
\* of the last tier was returned.
C9_Witness ==
    /\ sfPc = "done"
    /\ sfIn.sig = "none"
    /\ SfRaised0 = "Exception" /\ SfRaised1 = "Exception" /\ SfRaised2 = "Exception"
    /\ sfOut = Returned(PathologicalText)

\* C10: a KeyboardInterrupt raised while _safeFormat evaluates tier 0, the
\* tier-1 diagnostic or the tier-2 diagnostic propagates out of _safeFormat and
\* is never replaced by a fallback string.
C10_InterruptPropagates ==
    sfPc = "done" /\ InterruptRaised => sfOut = Raised("KeyboardInterrupt")

---------------------------------------------------------------------------
(* Properties of publishToNewObserver (SpecNorm)                           *)

\* C2: normalization is idempotent: a second publishToNewObserver on the dict
\* the first one left changes no key of it, and ends the way the first did.
C2_Idempotent ==
    nPc = "twice" => nTwice.event = nOnce.event /\ nTwice.outcome = nOnce.outcome

\* A legacy event (no log_ key yet) with a format that tier 0 cannot render,
\* normalized twice: the first pass added the log_ keys.
C2_Witness ==
    /\ nPc = "twice"
    /\ nOnce.outcome = "publish"
    /\ nTwice.outcome = "publish"
    /\ "message" \in DOMAIN nIn.event
    /\ nIn.event["message"] = <<>>
    /\ "format" \in DOMAIN nIn.event
    /\ DOMAIN nIn.event \cap {"log_format", "log_text", "log_level"} = {}
    /\ {"log_format", "log_text", "log_level", "log_namespace"} \subseteq DOMAIN nOnce.event
    /\ ModRaises(nIn.event["format"], nIn.event)

\* C12: when publishToNewObserver finds log_level absent it sets it to the
\* table image of logLevel when that key is present (10 debug, 20 info,
\* 30 warn, 40 error, 50 error), whatever isError is; otherwise to error when
\* isError is truthy; otherwise to info.  A log_level present on entry is
\* never changed.
C12_SeverityDerivation ==
    nPc # "call" =>
        LET e == nIn.event
        IN  /\ "log_level" \in DOMAIN e =>
                  /\ "log_level" \in DOMAIN nOnce.event
                  /\ nOnce.event["log_level"] = e["log_level"]
            /\ "log_level" \notin DOMAIN e /\ nOnce.outcome = "publish" =>
                  nOnce.event["log_level"] =
                      IF "logLevel" \in DOMAIN e THEN
                          CASE e["logLevel"] = 10 -> "debug"
                            [] e["logLevel"] = 20 -> "info"
                            [] e["logLevel"] = 30 -> "warn"
                            [] e["logLevel"] = 40 -> "error"
                            [] e["logLevel"] = 50 -> "error"
                            [] OTHER -> "no image"
                      ELSE IF e["isError"] # 0 THEN "error"
                      ELSE "info"

\* An event with logLevel = 10 and a truthy isError, and no log_level: its
\* log_level becomes debug.
C12_Witness ==
    /\ nPc = "once"
    /\ nOnce.outcome = "publish"
    /\ {"logLevel", "isError"} \subseteq DOMAIN nIn.event
    /\ "log_level" \notin DOMAIN nIn.event
    /\ nIn.event["logLevel"] = 10
    /\ nIn.event["isError"] = 1
    /\ nOnce.event["log_level"] = "debug"

\* C16: an event that carries a log_text key when publishToNewObserver is
\* entered, with or without log_format, has the same log_text value after it.
C16_LogTextNeverOverwritten ==
    nPc # "call" /\ "log_text" \in DOMAIN nIn.event =>
        /\ "log_text" \in DOMAIN nOnce.event
        /\ nOnce.event["log_text"] = nIn.event["log_text"]

\* C19: publishToNewObserver removes no key, changes the value of no key that
\* was present on entry other than log_text, and adds no key other than
\* log_text, log_format, log_level, log_namespace and log_system; when it
\* drops the event the dict is as it was on entry.
C19_NormalizationFrame ==
    nPc # "call" =>
        /\ DOMAIN nIn.event \subseteq DOMAIN nOnce.event
        /\ \A k \in DOMAIN nIn.event \ {"log_text"} : nOnce.event[k] = nIn.event[k]
        /\ DOMAIN nOnce.event \ DOMAIN nIn.event
              \subseteq {"log_text", "log_format", "log_level", "log_namespace",
                         "log_system"}
        /\ nOnce.outcome = "dropped" => nOnce.event = nIn.event

\* A legacy event with a numeric logLevel, a system and a failure that is
\* published: the five log_ keys are what was added.
C19_Witness ==
    /\ nPc = "once"
    /\ nOnce.outcome = "publish"
    /\ {"message", "isError", "failure", "logLevel", "system"} \subseteq DOMAIN nIn.event
    /\ DOMAIN nOnce.event \ DOMAIN nIn.event
          = {"log_text", "log_format", "log_level", "log_namespace", "log_system"}

---------------------------------------------------------------------------
(* Properties of the publisher (Spec)                                      *)

\* The last call was a msg whose event has an empty message, a false isError
\* and no format key.
EmptyPlainEvent ==
    /\ last.op = "msg"
    /\ last.message = <<>>
    /\ ~Truthy(last.built["isError"])
    /\ "format" \notin DOMAIN last.built

\* C1 as stated: every event with an empty message, a false isError and no
\* format key is dropped by publishToNewObserver and reaches no observer.
C1_DropRule ==
    EmptyPlainEvent => last.normalized = "dropped" /\ last.calls = <<>>

\* C1, amended: every event with an empty message, a false isError, no format
\* key and no log_format key is dropped by publishToNewObserver and reaches no
\* observer, whatever observers are registered.
C1_DropRuleWithoutLogFormat ==
    EmptyPlainEvent /\ "log_format" \notin DOMAIN last.built
        => last.normalized = "dropped" /\ last.calls = <<>>

\* msg() with nothing to log while two observers are registered.
C1_Witness ==
    /\ EmptyPlainEvent
    /\ "log_format" \notin DOMAIN last.built
    /\ Len(registry) >= 2
    /\ last.normalized = "dropped"

\* The observers called by the last msg, as (owner, observer) pairs.
LastCalled ==
    [i \in 1..Len(last.calls) |-> [owner |-> last.calls[i].originator,
                                   observer |-> last.calls[i].legacyObserver]]

\* C3 as stated: whenever msg is called with an event that normalization does
\* not drop, every observer registered at that moment is called with the
\* normalized event, once per registration, in registration order, and msg
\* returns after the last of them.
C3_DispatchAll ==
    last.op = "msg" /\ last.normalized = "publish" =>
        /\ LastCalled = last.registered
        /\ \A i \in 1..Len(last.calls) : last.calls[i].eventDict = last.event
        /\ last.raised = "none"

\* C3, amended: whenever msg is called with an event that normalization turns
\* into a normalized event, the observers registered at that moment are called
\* with that event, once per registration, in registration order, up to and
\* including the first one that raises; when none raises all of them are
\* called and msg returns after the last; when one raises, its exception leaves
\* msg and the observers registered after it are not called.
C3_DispatchUntilRaise ==
    last.op = "msg" /\ last.normalized = "publish" =>
        LET n == Len(last.calls)
        IN  /\ n <= Len(last.registered)
            /\ LastCalled = SubSeq(last.registered, 1, n)
            /\ \A i \in 1..n : last.calls[i].eventDict = last.event
            /\ {"log_format", "log_level", "log_namespace", "log_system"}
                  \subseteq DOMAIN last.event
            /\ \A i \in 1..(n - 1) : LastCalled[i].observer \notin last.raising
            /\ IF n > 0 /\ LastCalled[n].observer \in last.raising
               THEN last.raised = "Exception"
               ELSE n = Len(last.registered) /\ last.raised = "none"

\* A msg delivered to three registrations, two of them of the same observer by
\* the same publisher.
C3_Witness ==
    /\ last.op = "msg"
    /\ last.normalized = "publish"
    /\ last.raised = "none"
    /\ Len(last.calls) = 3
    /\ LastCalled[1] = LastCalled[3]
    /\ LastCalled[2] # LastCalled[1]

\* The last msg called an observer that raised on that call.
LastRaising ==
    \E i \in 1..Len(last.before) : last.before[i].legacyObserver \in last.raising

\* C13: provided no observer raises (and nothing interrupts it), msg returns
\* without raising for every combination of message fragments and keyword
\* fields, a malformed format, unstringifiable values, a logLevel outside the
\* table and a pre-set log_format included, and an event that is not dropped
\* reaches every registered observer with its text.
C13_NeverCrashes ==
    last.op = "msg" /\ last.sig = "none" /\ ~LastRaising =>
        /\ last.raised = "none"
        /\ last.normalized \in {"publish", "dropped"}
        /\ last.normalized = "publish" =>
              /\ LastCalled = last.registered
              /\ \A i \in 1..Len(last.calls) : last.calls[i].eventDict = last.event

\* C18: when an observer raises during the dispatch of a msg, the exception
\* leaves msg and the observers registered after it are not called for that
\* event; the registrations are as they were; and a later msg during which
\* no observer raises is dispatched to all the observers.
C18_ObserverErrorPropagates ==
    last.op = "msg" =>
        /\ registry = last.before
        /\ last.normalized = "publish" /\ LastRaising =>
              LET n == Len(last.calls)
              IN  /\ n >= 1 /\ n <= Len(last.before)
                  /\ last.before[n].legacyObserver \in last.raising
                  /\ \A i \in 1..(n - 1) : last.before[i].legacyObserver \notin last.raising
                  /\ \A i \in 1..n :
                        last.calls[i].legacyObserver = last.before[i].legacyObserver
                  /\ last.raised = "Exception"
                  /\ exc = "Exception"
        /\ last.afterAbort /\ last.normalized = "publish" /\ ~LastRaising =>
              /\ LastCalled = last.registered
              /\ last.raised = "none"

\* A first msg was cut short by the observer bad, registered before f, and
\* left f uncalled; a later msg, during which bad does not raise, has just
\* called both.
C18_Witness ==
    /\ last.op = "msg"
    /\ last.afterAbort
    /\ last.normalized = "publish"
    /\ last.raising = {}
    /\ Len(last.calls) = 2
    /\ last.calls[1].legacyObserver = "bad"
    /\ last.calls[2].legacyObserver = "f"
    /\ registry = last.before

\* The registrations of (owner, observer) in a list of wrappers.
Registrations(obs, owner, observer) ==
    {i \in 1..Len(obs) : obs[i].originator = owner /\ obs[i].legacyObserver = observer}

\* The observers that owner has registered and not removed, in order.
LiveObservers(owner) ==
    LET mine == SelectSeq(owned, LAMBDA r : r.owner = owner)
    IN  [i \in 1..Len(mine) |-> mine[i].observer]

\* C5: removeObserver(ownerA, f) removes no registration of another owner and
\* none of another observer, and the observers listing of an owner is exactly
\* the observers of that owner's live registrations.
C5_RegistryIsolation ==
    /\ \A p \in Publishers : observers(registry, p) = LiveObservers(p)
    /\ last.op = "removeObserver" =>
          \A p \in Publishers, o \in Observers :
              (p # last.self \/ o # last.other) =>
                  Cardinality(Registrations(registry, p, o))
                      = Cardinality(Registrations(last.before, p, o))

\* addObserver(ownerA, f), addObserver(ownerB, g), removeObserver(ownerA, f):
\* g is still registered and the listing of ownerA is empty.
C5_Witness ==
    /\ last.op = "removeObserver"
    /\ last.self = "theLogPublisher" /\ last.other = "f"
    /\ last.before = <<LegacyLogObserverWrapper("theLogPublisher", "f"),
                       LegacyLogObserverWrapper("otherPublisher", "g")>>
    /\ registry = <<LegacyLogObserverWrapper("otherPublisher", "g")>>
    /\ observers(registry, "theLogPublisher") = <<>>
    /\ observers(registry, "otherPublisher") = <<"g">>

\* C6: removeObserver(owner, fn) removes the first registration, in
\* registration order, that matches both the owner and the observer, and leaves
\* the others and their order as they were; when none matches it leaves the
\* registry as it was and raises nothing.
C6_RemoveFirstMatch ==
    last.op = "removeObserver" =>
        LET hits == Registrations(last.before, last.self, last.other)
        IN  /\ exc = "none"
            /\ IF hits = {} THEN registry = last.before
               ELSE \E i \in hits :
                      /\ \A j \in hits : i <= j
                      /\ Len(registry) = Len(last.before) - 1
                      /\ \A k \in 1..Len(registry) :
                            registry[k] = last.before[IF k < i THEN k ELSE k + 1]

\* The pair registered first and third is removed: the first goes, the third
\* stays behind the second.
C6_Witness ==
    /\ last.op = "removeObserver"
    /\ Len(last.before) = 3
    /\ last.before[1] = LegacyLogObserverWrapper(last.self, last.other)
    /\ last.before[3] = last.before[1]
    /\ last.before[2] # last.before[1]
    /\ registry = <<last.before[2], last.before[3]>>

---------------------------------------------------------------------------
(* Properties of the context (SpecContext)                                 *)

\* base overlaid by each mapping of overlays in turn: a later one wins.
RECURSIVE Overlaid(_, _)
Overlaid(base, overlays) ==
    IF Len(overlays) = 0 THEN base
    ELSE Overlaid([k \in DOMAIN base \cup DOMAIN overlays[1] |->
                      IF k \in DOMAIN overlays[1] THEN overlays[1][k] ELSE base[k]],
                  Tail(overlays))

\* C7: callWithContext(ctx, fn) makes the merged mapping the current one for
\* the extent of fn and restores the prior mapping when fn returns or raises;
\* once every call has ended the current mapping is the one from before the
\* outermost call, and a msg inside sees the innermost ctx.
C7_ContextScoping ==
    /\ Len(ctxStack) = Len(saved) + 1
    /\ ctxStack[1] = DefaultContext
    /\ \A i \in 1..Len(saved) :
          /\ ctxStack[i] = saved[i].prior
          /\ \A k \in DOMAIN saved[i].overlay :
                k \in DOMAIN ctxStack[i + 1] /\ ctxStack[i + 1][k] = saved[i].overlay[k]
          /\ \A k \in DOMAIN saved[i].prior \ DOMAIN saved[i].overlay :
                k \in DOMAIN ctxStack[i + 1] /\ ctxStack[i + 1][k] = saved[i].prior[k]
    /\ last.op \in {"return", "unwind"} => Current(ctxStack) = last.prior
    /\ last.op = "msg" /\ Len(last.overlays) > 0 =>
          LET inner == last.overlays[Len(last.overlays)]
          IN  \A k \in DOMAIN inner \ (DOMAIN last.kw \cup {"message", "time"}) :
                  last.built[k] = inner[k]

\* An exception has just left the inner of two nested calls: the mapping of
\* the outer call is current again, and it is not the default.
C7_Witness ==
    /\ last.op = "unwind"
    /\ exc # "none"
    /\ Len(saved) = 1
    /\ Current(ctxStack) = Update(DefaultContext, saved[1].overlay)
    /\ Current(ctxStack) # DefaultContext

\* C8: the event msg builds is the defaults {isError: 0, system: "-"} overlaid
\* by the active callWithContext mappings from the outermost to the innermost,
\* overlaid by the keyword fields, with message the positional arguments and
\* time the current time; it has the keys message, time, isError and system.
C8_LayeredEvent ==
    last.op = "msg" =>
        LET under == Overlaid(Overlaid([isError |-> 0, system |-> "-"], last.overlays),
                              <<last.kw>>)
        IN  /\ DOMAIN last.built = DOMAIN under \cup {"message", "time"}
            /\ last.built["message"] = last.message
            /\ last.built["time"] = last.now
            /\ \A k \in DOMAIN under \ {"message", "time"} : last.built[k] = under[k]
            /\ {"message", "time", "isError", "system"} \subseteq DOMAIN last.built

\* A msg with keyword fields named message and time, inside two nested calls
\* whose mappings both set system.
C8_Witness ==
    /\ last.op = "msg"
    /\ last.overlays = <<[system |-> "X"], [system |-> "Y", isError |-> 1]>>
    /\ last.kw = [message |-> <<"kw">>, time |-> 0]
    /\ last.message = <<"a", "b">>
    /\ last.built["system"] = "Y"
    /\ last.built["message"] = <<"a", "b">>

---------------------------------------------------------------------------
(* Properties of the threads (SpecThreads)                                 *)

\* C4: addObserver, removeObserver and the dispatch loop of msg are mutually
\* exclusive: while a thread is in the dispatch loop no other thread is inside
\* addObserver or removeObserver, and no other thread is in the loop.
C4_MutualExclusion ==
    \A t \in Threads, u \in Threads :
        t # u /\ thPc[t] = "msg" =>
            thPc[u] \notin {"msg", "addObserver", "removeObserver"}

---------------------------------------------------------------------------
(* Properties of textFromEventDict (SpecText)                              *)

\* C11: the text textFromEventDict returns is, by precedence: the fragments
\* of a non-empty message joined by single spaces, whatever format, failure,
\* why and isError are; else, with isError truthy and a failure present,
\* (why, or "Unhandled Error" when why is absent or falsy) + newline + the
\* failure's traceback, even when format is present; else, with format
\* present, what _safeFormat(format, event) gives; else None.
C11_TextPrecedence ==
    tPc = "done" =>
        LET e == tIn.eventDict
            header == IF "why" \in DOMAIN e /\ e["why"] \notin {NoneValue, ""}
                      THEN e["why"] ELSE "Unhandled Error"
            rendered == _safeFormat(e["format"], e, tIn.sig)
        IN  IF e["message"] # <<>> THEN
                /\ tOut = TextOf(JoinFragments(e["message"]))
                /\ e["message"] = <<"a", "b">> => tOut.text = "a b"
            ELSE IF e["isError"] # 0 /\ "failure" \in DOMAIN e THEN
                tOut = TextOf(header \o "\n" \o getTraceback(e["failure"]))
            ELSE IF "format" \in DOMAIN e THEN
                /\ tOut.raised = rendered.raised
                /\ tOut.text = rendered.text
                /\ ~tOut.isNone
            ELSE tOut = TextNone

\* An error event with an empty message, a failure, why = "X" and a format:
\* the text is "X", a newline and the traceback, not the rendered format.
C11_Witness ==
    /\ tPc = "done"
    /\ tIn.eventDict["message"] = <<>>
    /\ tIn.eventDict["isError"] = 1
    /\ {"failure", "why", "format", "system"} \subseteq DOMAIN tIn.eventDict
    /\ tIn.eventDict["why"] = "X"
    /\ tOut = TextOf("X\n" \o getTraceback("F"))

---------------------------------------------------------------------------
(* Properties of err and callWithLogger (SpecReport)                       *)

\* The error err was given or, for None, the Failure of the one in flight.
ErrFailure ==
    IF last.stuff = NoneValue THEN Failure(last.inFlight)
    ELSE IF last.stuff \in ExceptionValues THEN Failure(last.stuff)
    ELSE last.stuff

\* The event of the last err has isError = 1 and why = the reason, and every
\* extra field as it was given.
ErrEventFields ==
    /\ last.called
    /\ last.built["isError"] = 1
    /\ last.built["why"] = last.why
    /\ \A k \in DOMAIN last.kw : k \in DOMAIN last.built /\ last.built[k] = last.kw[k]

\* What the observers called by the last err received: isError = 1,
\* log_level error and, for a non-empty reason, a log_text that is the reason,
\* a newline and the traceback.
ErrEventReceived ==
    \A i \in 1..Len(last.calls) :
        LET e == last.calls[i].eventDict
        IN  /\ e["isError"] = 1
            /\ "log_level" \in DOMAIN e /\ e["log_level"] = "error"
            /\ last.why \notin {NoneValue, ""} =>
                  /\ "log_text" \in DOMAIN e
                  /\ e["log_text"] = last.why \o "\n" \o getTraceback(e["failure"])

FuncAt ==
    LET at == {i \in 1..Len(last.trace) : last.trace[i].step = "func"}
    IN  IF at = {} THEN 0 ELSE CHOOSE i \in at : TRUE

\* The label callWithLogger uses.
LastLabel == IF last.lpOutcome = "return" THEN OwnerLabel ELSE BuggyLogPrefix

\* The step i of the trace is an err call that emitted an error event with
\* system = label.
ErrorEventAt(i, label) ==
    /\ last.trace[i].step = "err"
    /\ last.trace[i].called
    /\ last.trace[i].built["isError"] = 1
    /\ "failure" \in DOMAIN last.trace[i].built
    /\ last.trace[i].built["system"] = label

\* C15 as stated: when func raises an exception that is no KeyboardInterrupt,
\* exactly one error event labelled with the owner's system label is emitted
\* and callWithLogger returns normally; a KeyboardInterrupt raised by func
\* leaves callWithLogger and is not logged.
C15_SwallowAndLog ==
    last.op = "callWithLogger" /\ FuncAt > 0 =>
        /\ last.fnOutcome = "Exception" =>
              /\ Len(last.trace) = FuncAt + 1
              /\ ErrorEventAt(FuncAt + 1, LastLabel)
              /\ last.raised = "none"
        /\ last.fnOutcome = "KeyboardInterrupt" =>
              /\ Len(last.trace) = FuncAt
              /\ last.raised = "KeyboardInterrupt"

\* C15, amended: when func raises an exception that is no KeyboardInterrupt,
\* exactly one error event labelled with the owner's system label is emitted,
\* and callWithLogger returns normally unless an observer raises while that
\* event is dispatched, in which case the observer's exception leaves
\* callWithLogger; a KeyboardInterrupt raised by func leaves callWithLogger
\* and is not logged.
C15_SwallowAndLogUnlessObserverRaises ==
    last.op = "callWithLogger" /\ FuncAt > 0 =>
        /\ last.fnOutcome = "Exception" =>
              /\ Len(last.trace) = FuncAt + 1
              /\ ErrorEventAt(FuncAt + 1, LastLabel)
              /\ last.raised = IF last.trace[FuncAt + 1].observerRaised
                               THEN "Exception" ELSE "none"
        /\ last.fnOutcome = "KeyboardInterrupt" =>
              /\ Len(last.trace) = FuncAt
              /\ last.raised = "KeyboardInterrupt"
        /\ last.fnOutcome = "return" =>
              /\ Len(last.trace) = FuncAt
              /\ last.raised = "none"

\* func raised under the owner's label with two observers registered: both
\* were called with the one error event and callWithLogger returned.
C15_Witness ==
    /\ last.op = "callWithLogger"
    /\ last.lpOutcome = "return"
    /\ last.fnOutcome = "Exception"
    /\ last.raised = "none"
    /\ Len(last.trace) = 2
    /\ Len(last.trace[2].calls) = 2
    /\ last.trace[2].calls[2].eventDict["system"] = OwnerLabel
    /\ last.trace[1].context["system"] = OwnerLabel

\* C17 as stated: when logPrefix raises an exception that is no
\* KeyboardInterrupt, the label is "(buggy logPrefix method)", an error event
\* with system = that label is emitted before func is called, and func is
\* then called exactly once with system = that label in its context.
C17_BuggyLogPrefix ==
    last.op = "callWithLogger" /\ last.lpOutcome = "Exception" =>
        /\ Len(last.trace) >= 2
        /\ ErrorEventAt(1, "(buggy logPrefix method)")
        /\ FuncAt = 2
        /\ Cardinality({i \in 1..Len(last.trace) : last.trace[i].step = "func"}) = 1
        /\ last.trace[2].context["system"] = "(buggy logPrefix method)"

\* C17, amended: as C17, unless an observer raises while the error event of
\* the label is dispatched: then the observer's exception leaves
\* callWithLogger and func is not called.
C17_BuggyLogPrefixUnlessObserverRaises ==
    last.op = "callWithLogger" /\ last.lpOutcome = "Exception" =>
        /\ Len(last.trace) >= 1
        /\ ErrorEventAt(1, "(buggy logPrefix method)")
        /\ IF last.trace[1].observerRaised
           THEN /\ Len(last.trace) = 1
                /\ FuncAt = 0
                /\ last.raised = "Exception"
           ELSE /\ Len(last.trace) >= 2
                /\ FuncAt = 2
                /\ Cardinality({i \in 1..Len(last.trace) :
                                   last.trace[i].step = "func"}) = 1
                /\ last.trace[2].context["system"] = "(buggy logPrefix method)"

\* logPrefix raised with an observer registered: the observer was called with
\* the error event of the label, then func was called and returned.
C17_Witness ==
    /\ last.op = "callWithLogger"
    /\ last.lpOutcome = "Exception"
    /\ last.fnOutcome = "return"
    /\ last.raised = "none"
    /\ Len(last.trace) = 2
    /\ Len(last.trace[1].calls) >= 1
    /\ last.trace[1].calls[1].eventDict["system"] = BuggyLogPrefix
    /\ last.trace[2].step = "func"
    /\ last.trace[2].context["system"] = BuggyLogPrefix

---------------------------------------------------------------------------
(* Properties of StdioOnnaStick.write (SpecStdio)                          *)

\* The lines of the msg calls made, each followed by a newline, in order.
RECURSIVE LinesOf(_)
LinesOf(es) ==
    IF es = <<>> THEN <<>>
    ELSE Head(es).line \o <<Newline>> \o LinesOf(Tail(es))

NewlinesIn(cs) == Cardinality({i \in 1..Len(cs) : cs[i] = Newline})

\* Every msg call made carries one line without a newline as its only
\* fragment, and the isError of the StdioOnnaStick; buf holds no newline.
WholeLines ==
    /\ NewlinesIn(stdio.buf) = 0
    /\ \A i \in 1..Len(emitted) :
          /\ NewlinesIn(emitted[i].line) = 0
          /\ emitted[i].event["message"] = <<StrOf(emitted[i].line)>>
          /\ emitted[i].event["isError"] = stdio.isError

\* C20 as stated: for any sequence of write calls one msg call is made per
\* newline written, in order, each with one complete line without its
\* newline and the isError of the StdioOnnaStick; the data written is always
\* the lines logged, each followed by a newline, followed by buf; a write
\* with no newline in it logs nothing.
C20_LineBuffering ==
    /\ WholeLines
    /\ Len(emitted) = NewlinesIn(written)
    /\ written = LinesOf(emitted) \o stdio.buf
    /\ last.op = "write" /\ NewlinesIn(last.data) = 0 => last.emitted = <<>>

\* C20, amended: the same for any sequence of write calls during which no
\* observer raises.  When an observer raises during a write, the exception
\* leaves write, buf is the unterminated tail all the same, and the lines of
\* that write after the one being logged are logged by no msg call.
C20_LineBufferingUnlessObserverRaises ==
    /\ WholeLines
    /\ ~aborted =>
          /\ Len(emitted) = NewlinesIn(written)
          /\ written = LinesOf(emitted) \o stdio.buf
    /\ last.op = "write" =>
          /\ NewlinesIn(last.data) = 0 => last.emitted = <<>>
          /\ stdio.buf = Split(last.bufBefore \o last.data)
                              [NewlinesIn(last.bufBefore \o last.data) + 1]
          /\ Len(last.emitted) <= NewlinesIn(last.data)
          /\ Len(last.emitted) < NewlinesIn(last.data) =>
                last.observerRaised /\ last.raised = "Exception"

\* A write of two newlines and a tail after a write of an unterminated "a",
\* with an observer registered: the lines "a" and "" were logged and the tail
\* is in buf.
C20_Witness ==
    /\ last.op = "write"
    /\ ~aborted
    /\ Len(registry) >= 1
    /\ last.bufBefore = <<"a">>
    /\ last.data = <<Newline, Newline, "a">>
    /\ Len(last.emitted) = 2
    /\ last.emitted[1].line = <<"a">>
    /\ last.emitted[2].line = <<>>
    /\ stdio.buf = <<"a">>

===========================================================================
